---- MODULE Spec2Model ----
(***************************************************************************)
(* Model of the Netrum lite node sync service (src/system/sync/service.js)  *)
(* and of its task poller (src/task/task.js, second part of the module).    *)
(* service.js holds several revisions of the service.  Two of them carry an *)
(* in-flight flag and are modelled here:                                    *)
(*   "adaptive": lines 468-937, isSyncing / consecutiveErrors / syncTimeout *)
(*               with a self re-arming setTimeout chain;                    *)
(*   "interval": lines 939-1166, isSyncing with setInterval(60 s).          *)
(* Times are milliseconds.  The state keeps no absolute clock: what is      *)
(* stored is the time still left (armed delay, remaining rate-limit wait),  *)
(* and every handler reads Date.now() as an input.  The backoff products    *)
(* BASE * (1 + k * 0.3) are computed in exact arithmetic (the doubles of    *)
(* the program differ from these integers by less than 1e-10 ms).           *)
(***************************************************************************)
EXTENDS Integers, Sequences, FiniteSets, TLC

VARIABLES
  variant,            \* which revision of service.js runs
  running,            \* FALSE after process.exit
  signalled,          \* SIGTERM or SIGINT has been delivered to the service
  isSyncing,          \* let isSyncing
  consecutiveErrors,  \* let consecutiveErrors (adaptive)
  syncTimeout,        \* let syncTimeout: the handle of the last timer scheduleNextSync armed
  timerPending,       \* number of pending next-sync timers (setTimeout of scheduleNextSync)
  initialTimer,       \* the initial setTimeout of startService is pending
  inFlight,           \* requests to the sync endpoint that have not returned
  caller,             \* which callback awaits the running syncNode
  miningToken,        \* content of miningtoken.txt
  rateLimitLeft,      \* ms left until the latest time stated by a 429 response
  lastResp,           \* the response that ended the last completed attempt
  lastResult,         \* the object syncNode returned last
  prevErrors,         \* consecutiveErrors when the last completed attempt started
  lastClass,          \* class of the last outcome
  prevClass,          \* class of the outcome before it
  streak,             \* consecutive transient outcomes counted from consecutiveErrors = 0
  armedDelay,         \* delay passed to the last setTimeout that arms a sync
  prevArmed,          \* delay passed to the one before
  armsSinceStart,     \* armings of the next-sync timer since the last attempt started
  lastCall,           \* how the last call of syncNode began
  ticks,              \* setInterval ticks so far (interval revision)
  lastNow,            \* Date.now() read while handling the last response
  lastWait,           \* rateLimitLeft when the last request was sent
  sentSinceStart,     \* requests sent to the sync endpoint since the last attempt started
  \* task.js
  pc,                 \* where processTasks waits
  nodeIdFile,         \* content of identity/node-id/id.txt
  nodeId,             \* const nodeId of processTasks, read once before the loop
  taskData,           \* const taskData of the running loop iteration
  netLog,             \* the requests task.js has sent, in order
  cycles,             \* loop iterations started
  cycleFrom,          \* Len(netLog) when the running iteration started
  cycleToken,         \* what getMiningToken returned to getTaskFromServer
  cycleOutcome,       \* how the running iteration went
  processMs,          \* duration of the processing step of the running iteration
  sleepMs,            \* delay of the last sleep of the loop
  cycleNodeId,        \* const nodeId of the running getTaskFromServer call
  sentNodeId,         \* nodeId of the last task request and of the last completion request
  reported,           \* the running iteration has logged "completed successfully"
  \* miningtoken.txt, byte by byte
  tokenFile,          \* whether the file exists, and its characters
  saving,             \* the saveToken call of the sync service: where it is, its token
  saves,              \* saveToken calls so far
  lastLoad,           \* what the last getMiningToken call returned, and when it ran
  \* start-mining.js
  minePc,             \* where the main function of start-mining.js waits
  mineToken,          \* let miningToken of the running loop iteration
  mineResp,           \* status and body of the last answer of the start-mining API
  mineSleep,          \* delay of the last sleep
  mineCalls,          \* requests sent to the start-mining API
  \* permission.js
  permFile,           \* task-permission.json: missing, not JSON, or its taskPowerEnabled
  defaultEnabled,     \* DEFAULT_PERMISSION.taskPowerEnabled
  permPc,             \* whether enableTaskPower awaits enableRAMOnServer
  permObj,            \* the object const permission of the running call refers to
  enableResult,       \* what the last enableTaskPower call returned
  permStatus,         \* taskPowerEnabled of the last getPermissionStatus()
  ramRequests,        \* requests sent to the enable-ram endpoint
  \* the sync service revisions without an in-flight flag
  rev,                \* which of them runs
  clock,              \* ms since startService()
  firstPending,       \* the initial sync has not run yet
  nextTick,           \* when the setInterval callback runs next
  timedTicks,         \* runs of the setInterval callback so far
  requests,           \* the api.post calls that have not settled: when sent, when due
  nextSyncAllowed,    \* let nextSyncAllowed (cooldown revision)
  lastSyncTime,       \* let lastSyncTime (cooldown revision)
  limitUntil,         \* the latest time a 429 answer of the server has stated
  lastSent            \* the last request sent: when, and limitUntil at that moment

\* State of task.js
taskVars == <<pc, nodeIdFile, nodeId, taskData, netLog, cycles, cycleFrom, cycleToken,
              cycleOutcome, processMs, sleepMs, cycleNodeId, sentNodeId, reported>>

\* The file as its writer and its readers see it
storeVars == <<tokenFile, saving, saves, lastLoad>>

\* State of start-mining.js
miningVars == <<minePc, mineToken, mineResp, mineSleep, mineCalls>>

\* State of permission.js
permVars == <<permFile, defaultEnabled, permPc, permObj, enableResult, permStatus,
              ramRequests>>

\* State of the sync service revisions without an in-flight flag
timedVars == <<rev, clock, firstPending, nextTick, timedTicks, requests,
               nextSyncAllowed, lastSyncTime, limitUntil, lastSent>>

\* State of the command-line tools and of the older revisions of the sync service
toolVars == <<miningVars, permVars, timedVars>>

\* State of service.js that task.js never reads
syncOnly == <<variant, running, signalled, isSyncing, consecutiveErrors, syncTimeout, timerPending,
              initialTimer, inFlight, caller, rateLimitLeft, lastResp,
              lastResult, prevErrors, lastClass, prevClass, streak, armedDelay,
              prevArmed, armsSinceStart, lastCall, ticks, lastNow, lastWait,
              sentSinceStart>>

vars == <<variant, running, signalled, isSyncing, consecutiveErrors, syncTimeout, timerPending,
          initialTimer, inFlight, caller, miningToken, rateLimitLeft, lastResp,
          lastResult, prevErrors, lastClass, prevClass, streak, armedDelay,
          prevArmed, armsSinceStart, lastCall, ticks, lastNow, lastWait,
          sentSinceStart, pc, nodeIdFile, nodeId, taskData, netLog, cycles, cycleFrom,
          cycleToken, cycleOutcome, processMs, sleepMs, cycleNodeId, sentNodeId,
          reported, tokenFile, saving, saves, lastLoad,
          minePc, mineToken, mineResp, mineSleep, mineCalls,
          permFile, defaultEnabled, permPc, permObj, enableResult, permStatus,
          ramRequests, rev, clock, firstPending, nextTick, timedTicks, requests,
          nextSyncAllowed, lastSyncTime, limitUntil, lastSent>>

----------------------------------------------------------------------------
\* Program constants
BASE_SYNC_INTERVAL == 62000
SYNC_BUFFER == 3000
minDelay == 60000
maxDelay == 120000
INITIAL_SYNC_DELAY == 10000
MIN_SCHEDULE_DELAY == 30000
RATE_LIMIT_FALLBACK_CAP == 120000
ERROR_FALLBACK_CAP == 300000
INTERVAL_STARTUP_DELAY == 5000
REQUEST_TIMEOUT == 45000
MAX_CONSECUTIVE_ERRORS == 5

POLL_INTERVAL == 3000
BLANK_TASK_DURATION == 1000
TASK_DURATION == 5000

\* Bounds of the model
MaxErrors == 11
MaxTicks == 4
MaxCycles == 3
MaxTokenLen == 3
MaxSaves == 2

Max(a, b) == IF a >= b THEN a ELSE b
Min(a, b) == IF a <= b THEN a ELSE b

\* JavaScript truthiness of a number-or-missing value: 0 stands for undefined/null/0
Truthy(x) == x # 0

NoToken == ""
Tokens == {"tokA", "tokB"}

\* Values Date.now() takes when a response is handled (the handlers use a time only
\* through its truthiness and its difference to now)
Clocks == {1000000}
\* nextSyncAllowed - Date.now() for the times a server states: past, now, below the
\* minimum, inside the window, beyond the maximum.  Times are millisecond timestamps
\* a Date can hold.
Offsets == {-5000, 0, 1000, 90000, 200000}
\* How late a timer fires (a timer never fires early)
Lateness == {0, 500}
\* Round-trip times of a request that is answered
Latencies == {200}

Statuses == {400, 401, 403, 404, 429, 500, 503}

NoResp == [kind |-> "none", status |-> 0, token |-> NoToken, next |-> 0]

\* What one attempt can meet: a 2xx body, an HTTP error status, a failure without a
\* response, or a failure before the request is sent
Responses(now) ==
  [kind : {"success"}, status : {200}, token : Tokens \cup {NoToken},
   next : {0} \cup {now + o : o \in Offsets}]
  \cup [kind : {"api_error"}, status : {200}, token : Tokens \cup {NoToken}, next : {0}]
  \cup [kind : {"empty_response"}, status : {200}, token : {NoToken}, next : {0}]
  \cup [kind : {"http_error"}, status : Statuses \ {429}, token : {NoToken}, next : {0}]
  \cup [kind : {"http_error"}, status : {429}, token : {NoToken},
        next : {0} \cup {now + o : o \in Offsets}]
  \cup [kind : {"timeout", "network_error", "unexpected_error"}, status : {0},
        token : {NoToken}, next : {0}]

LocalFailures ==
  [kind : {"no_node_id", "no_metrics"}, status : {0}, token : {NoToken}, next : {0}]

----------------------------------------------------------------------------
\* The adaptive revision: pure parts of syncNode and of the timer callbacks

calculateNoBuffer(serverNextSyncAllowed, now) ==
  IF ~Truthy(serverNextSyncAllowed) \/ serverNextSyncAllowed <= now
  THEN BASE_SYNC_INTERVAL
  ELSE Max(minDelay, Min(maxDelay, serverNextSyncAllowed - now))
calculateNextSyncDelay(serverNextSyncAllowed, now) ==
  IF ~Truthy(serverNextSyncAllowed) \/ serverNextSyncAllowed <= now
  THEN BASE_SYNC_INTERVAL
  ELSE Max(minDelay, Min(maxDelay, (serverNextSyncAllowed - now) + SYNC_BUFFER))

\* Outcome classes of the specification (4.2) for a response
ClassOf(resp) ==
  CASE resp.kind = "success" -> "success"
    [] resp.kind = "http_error" /\ resp.status = 429 -> "rate_limited"
    [] resp.kind = "http_error" /\ resp.status \in {400, 403, 404} -> "permanent"
    [] resp.kind = "http_error" /\ resp.status >= 500 -> "transient"
    [] resp.kind \in {"timeout", "network_error"} -> "transient"
    [] OTHER -> "other"

\* consecutiveErrors after the attempt: reset on success === true, else one more
ErrorsAfterTokenOnly(resp, ce) ==
  IF resp.kind = "success" /\ resp.token # NoToken THEN 0
  ELSE IF resp.kind = "success" THEN ce ELSE ce + 1
ErrorsAfterResetOn429(resp, ce) ==
  IF resp.kind = "success" \/ (resp.kind = "http_error" /\ resp.status = 429)
  THEN 0 ELSE ce + 1
ErrorsAfterSkipsLocal(resp, ce) ==
  IF resp.kind = "success" THEN 0
  ELSE IF resp.kind \in {"no_node_id", "no_metrics"} THEN ce ELSE ce + 1
ErrorsAfter(resp, ce) ==
  IF resp.kind = "success" THEN 0 ELSE ce + 1

\* BASE_SYNC_INTERVAL * (1 + (Math.min(cap, n) * tenths / 10))
Backoff(cap, tenths, n) ==
  (BASE_SYNC_INTERVAL * (10 + Min(cap, n) * tenths)) \div 10

\* The local nextSyncDelay of syncNode when it returns; ce is consecutiveErrors
\* before the attempt (the catch block increments before it computes a backoff)
DelayAfterBackoffOn429(resp, ce, now) ==
  CASE resp.kind = "success" ->
         IF Truthy(resp.next) THEN calculateNextSyncDelay(resp.next, now)
         ELSE BASE_SYNC_INTERVAL
    [] resp.kind = "http_error" /\ resp.status = 429 -> Backoff(5, 5, ce + 1)
    [] resp.kind = "http_error" /\ resp.status >= 500 -> Backoff(10, 3, ce + 1)
    [] resp.kind = "network_error" -> Backoff(8, 4, ce + 1)
    [] OTHER -> BASE_SYNC_INTERVAL
DelayAfter(resp, ce, now) ==
  CASE resp.kind = "success" ->
         IF Truthy(resp.next) THEN calculateNextSyncDelay(resp.next, now)
         ELSE BASE_SYNC_INTERVAL
    [] resp.kind = "http_error" /\ resp.status = 429 ->
         IF Truthy(resp.next) THEN calculateNextSyncDelay(resp.next, now)
         ELSE Backoff(5, 5, ce + 1)
    [] resp.kind = "http_error" /\ resp.status >= 500 -> Backoff(10, 3, ce + 1)
    [] resp.kind = "network_error" -> Backoff(8, 4, ce + 1)
    [] OTHER -> BASE_SYNC_INTERVAL

ReasonOfAnyErrorStatus(resp) ==
  CASE resp.kind = "success" -> "success"
    [] resp.kind = "api_error" -> "api_error"
    [] resp.kind = "empty_response" -> "empty_response"
    [] resp.kind = "http_error" /\ resp.status = 400 -> "bad_request"
    [] resp.kind = "http_error" /\ resp.status = 403 -> "permission_denied"
    [] resp.kind = "http_error" /\ resp.status = 429 -> "rate_limited"
    [] resp.kind = "http_error" /\ resp.status >= 404 -> "server_error"
    [] resp.kind = "http_error" -> "none"
    [] resp.kind = "timeout" -> "timeout"
    [] resp.kind = "network_error" -> "network_error"
    [] OTHER -> "unexpected_error"
ReasonOf(resp) ==
  CASE resp.kind = "success" -> "success"
    [] resp.kind = "api_error" -> "api_error"
    [] resp.kind = "empty_response" -> "empty_response"
    [] resp.kind = "http_error" /\ resp.status = 400 -> "bad_request"
    [] resp.kind = "http_error" /\ resp.status = 403 -> "permission_denied"
    [] resp.kind = "http_error" /\ resp.status = 404 -> "not_found"
    [] resp.kind = "http_error" /\ resp.status = 429 -> "rate_limited"
    [] resp.kind = "http_error" /\ resp.status >= 500 -> "server_error"
    [] resp.kind = "http_error" -> "none"
    [] resp.kind = "timeout" -> "timeout"
    [] resp.kind = "network_error" -> "network_error"
    [] OTHER -> "unexpected_error"

\* The object syncNode returns from its finally block
ResultOf(resp, ce, now) ==
  [success |-> resp.kind = "success",
   reason |-> ReasonOf(resp),
   nextSyncDelay |-> DelayAfter(resp, ce, now),
   consecutiveErrors |-> ErrorsAfter(resp, ce)]

\* The object syncNode returns when isSyncing is already set (no nextSyncDelay)
SkippedResult(ce) ==
  [success |-> FALSE, reason |-> "already_syncing", nextSyncDelay |-> 0,
   consecutiveErrors |-> ce]

NoResult ==
  [success |-> FALSE, reason |-> "none", nextSyncDelay |-> 0, consecutiveErrors |-> 0]

\* nextDelay of the callback scheduleNextSync arms; ce is the module's
\* consecutiveErrors when the callback resumes
TimerNextDelayFailureFirst(result, ce) ==
  LET chosen ==
        IF ~result.success /\ result.reason = "rate_limited"
          THEN Min(RATE_LIMIT_FALLBACK_CAP, (BASE_SYNC_INTERVAL * 12) \div 10)
        ELSE IF ~result.success
          THEN Min(ERROR_FALLBACK_CAP, Backoff(5, 5, ce))
        ELSE IF Truthy(result.nextSyncDelay) /\ result.nextSyncDelay > 0
          THEN result.nextSyncDelay
        ELSE BASE_SYNC_INTERVAL
  IN Max(MIN_SCHEDULE_DELAY, chosen)
TimerNextDelay(result, ce) ==
  LET chosen ==
        IF Truthy(result.nextSyncDelay) /\ result.nextSyncDelay > 0
          THEN result.nextSyncDelay
        ELSE IF ~result.success /\ result.reason = "rate_limited"
          THEN Min(RATE_LIMIT_FALLBACK_CAP, (BASE_SYNC_INTERVAL * 12) \div 10)
        ELSE IF ~result.success
          THEN Min(ERROR_FALLBACK_CAP, Backoff(5, 5, ce))
        ELSE BASE_SYNC_INTERVAL
  IN Max(MIN_SCHEDULE_DELAY, chosen)

\* initialDelay of the initial callback of startService
InitialNextDelayBase(result) == BASE_SYNC_INTERVAL
InitialNextDelay(result) ==
  IF Truthy(result.nextSyncDelay) /\ result.nextSyncDelay > 0
  THEN result.nextSyncDelay
  ELSE BASE_SYNC_INTERVAL

\* const delay = customDelay || BASE_SYNC_INTERVAL
\* (variant: the delay is taken relative to the base interval already waited)
scheduleDelayFromBase(customDelay) == customDelay - BASE_SYNC_INTERVAL
scheduleDelay(customDelay) ==
  IF Truthy(customDelay) THEN customDelay ELSE BASE_SYNC_INTERVAL

\* How fs.writeFileSync(TOKEN_PATH, token) can end: the file holds the token; the
\* file could not be opened and is as it was; the file was opened, which empties it,
\* and the write failed
WriteOutcomes == {"written", "not_opened", "truncated"}

\* saveToken: writes the file; a failed write is caught and logged
saveToken(stored, token, write) ==
  CASE write = "written" -> token
    [] write = "not_opened" -> stored
    [] write = "truncated" -> NoToken

\* if (response.data.miningToken) { saveToken(response.data.miningToken); }
TokenAfterClearedOn401(stored, resp, write) ==
  IF resp.kind = "success" /\ resp.token # NoToken
  THEN saveToken(stored, resp.token, write)
  ELSE IF resp.kind = "http_error" /\ resp.status = 401 THEN NoToken ELSE stored
TokenAfterDropsStale(stored, resp, write) ==
  IF resp.kind = "success" THEN saveToken(stored, resp.token, write) ELSE stored
TokenAfter(stored, resp, write) ==
  IF resp.kind = "success" /\ resp.token # NoToken
  THEN saveToken(stored, resp.token, write)
  ELSE stored

\* Requests the catch and finally blocks of syncNode send: there is no api.post in them
ResendOnNetworkFailure(resp) ==
  IF resp.kind \in {"timeout", "network_error"} THEN 1 ELSE 0
ResendsAfter(resp) == 0

StreakAfter(resp, ce, s) ==
  IF ClassOf(resp) = "transient"
  THEN (IF ce = 0 THEN 1 ELSE IF s > 0 THEN s + 1 ELSE 0)
  ELSE 0

----------------------------------------------------------------------------
\* Timers of the adaptive revision

\* syncTimeout = null
NullTimeout == [set |-> FALSE, delay |-> 0, live |-> FALSE]

\* scheduleNextSync(customDelay) on the timer state t = [pending, handle, arms]:
\* clearTimeout of the timer the handle refers to, then one setTimeout
scheduleNextSync(t, customDelay) ==
  LET cleared == IF t.handle.set /\ t.handle.live THEN t.pending - 1 ELSE t.pending
      delay == scheduleDelay(customDelay)
  IN [pending |-> cleared + 1,
      handle |-> [set |-> TRUE, delay |-> delay, live |-> TRUE],
      arms |-> t.arms + 1]

\* What the awaiting callback does once syncNode has returned: one scheduleNextSync
RearmUntilMaxErrors(t, who, result, ce) ==
  IF ce >= MAX_CONSECUTIVE_ERRORS
  THEN [pending |-> t.pending, handle |-> t.handle, arms |-> t.arms]
  ELSE scheduleNextSync(t, IF who = "initial" THEN InitialNextDelay(result)
                           ELSE TimerNextDelay(result, ce))
RearmTwice(t, who, result, ce) ==
  LET d == IF who = "initial" THEN InitialNextDelay(result) ELSE TimerNextDelay(result, ce)
  IN scheduleNextSync(scheduleNextSync(t, d), d)
Rearm(t, who, result, ce) ==
  scheduleNextSync(t, IF who = "initial" THEN InitialNextDelay(result)
                      ELSE TimerNextDelay(result, ce))

\* if (isSyncing) { ...; return ... }
NeverSyncing(flag) == FALSE
AlreadySyncing(flag) == flag

\* task.js before processTasks() is called, with id.txt holding one of `ids`
NoNodeId == ""
NoTask == [kind |-> "none", category |-> "", isBlankTask |-> FALSE]
NothingSent == [fetch |-> NoNodeId, complete |-> NoNodeId]
TaskStart(ids) ==
  /\ pc = "init"
  /\ nodeIdFile \in ids
  /\ nodeId = NoNodeId
  /\ taskData = NoTask
  /\ netLog = <<>>
  /\ cycles = 0
  /\ cycleFrom = 0
  /\ cycleToken = NoToken
  /\ cycleOutcome = "none"
  /\ processMs = 0
  /\ sleepMs = 0
  /\ cycleNodeId = NoNodeId
  /\ sentNodeId = NothingSent
  /\ reported = FALSE

\* start-mining.js before its main function runs
NoMineResp == [kind |-> "none", status |-> 0, body |-> ""]
MiningStart ==
  /\ minePc = "boot"
  /\ mineToken = ""
  /\ mineResp = NoMineResp
  /\ mineSleep = 0
  /\ mineCalls = 0

\* permission.js after the module is loaded, with task-permission.json in one of
\* the states of `files`
PermissionStart(files) ==
  /\ permFile \in files
  /\ defaultEnabled = FALSE
  /\ permPc = "idle"
  /\ permObj = "none"
  /\ enableResult = "none"
  /\ permStatus = "unknown"
  /\ ramRequests = 0

\* The setInterval period of a revision without an in-flight flag, its axios
\* timeout, and the delay of its first sync
SyncIntervalOf(r) ==
  CASE r = "cooldown" -> 15000
    [] r = "part_003" -> 302000
    [] r = "part_004" -> 60000
RequestTimeoutOf(r) ==
  CASE r = "cooldown" -> 20000
    [] r = "part_003" -> 302000
    [] r = "part_004" -> 60000
StartDelayOf(r) ==
  CASE r = "cooldown" -> 0
    [] r = "part_003" -> 10000
    [] r = "part_004" -> 5000

\* A revision without an in-flight flag when startService() has returned
NothingSentYet == [at |-> 0, limit |-> 0]
TimedStart(revisions) ==
  /\ rev \in revisions
  /\ clock = 0
  /\ firstPending = TRUE
  /\ nextTick = SyncIntervalOf(rev)
  /\ timedTicks = 0
  /\ requests = {}
  /\ nextSyncAllowed = 0
  /\ lastSyncTime = 0
  /\ limitUntil = 0
  /\ lastSent = NothingSentYet

ToolsStart ==
  /\ MiningStart
  /\ PermissionStart({"missing"})
  /\ TimedStart({"cooldown"})

SyncStart ==
  /\ running = TRUE
  /\ signalled = FALSE
  /\ isSyncing = FALSE
  /\ consecutiveErrors = 0
  /\ syncTimeout = NullTimeout
  /\ timerPending = 0
  /\ initialTimer = TRUE
  /\ inFlight = 0
  /\ caller = "none"
  /\ miningToken = NoToken
  /\ rateLimitLeft = 0
  /\ lastResp = NoResp
  /\ lastResult = NoResult
  /\ prevErrors = 0
  /\ lastClass = "none"
  /\ prevClass = "none"
  /\ streak = 0
  /\ armedDelay = IF variant = "adaptive" THEN INITIAL_SYNC_DELAY ELSE INTERVAL_STARTUP_DELAY
  /\ prevArmed = 0
  /\ armsSinceStart = 0
  /\ lastCall = "none"
  /\ ticks = 0
  /\ lastNow = 0
  /\ lastWait = 0
  /\ sentSinceStart = 0

\* miningtoken.txt before the first sync: absent, and nobody has touched it
NoFile == [exists |-> FALSE, data |-> <<>>]
NotSaving == [pc |-> "idle", token |-> <<>>, before |-> NoFile, ok |-> FALSE]
NotLoaded ==
  [kind |-> "none", value |-> <<>>, readOk |-> FALSE, empty |-> FALSE,
   during |-> FALSE, saved |-> FALSE, token |-> <<>>, old |-> <<>>]
StoreStart ==
  /\ tokenFile = NoFile
  /\ saving = NotSaving
  /\ saves = 0
  /\ lastLoad = NotLoaded

Init ==
  /\ variant \in {"adaptive", "interval"}
  /\ SyncStart
  /\ TaskStart({"node-1"})
  /\ StoreStart
  /\ ToolsStart

\* The rest of an attempt of the adaptive revision, from the response (or the local
\* failure) to the return of syncNode and the scheduleNextSync of the awaiting
\* callback `who`; t is the timer state, left the rate-limit wait at that moment and
\* sent the number of requests the attempt has sent.
\* All of it runs without yielding to a timer or a signal.
Complete(resp, now, write, who, t, left, sent) ==
  LET result == ResultOf(resp, consecutiveErrors, now)
      ce2 == ErrorsAfter(resp, consecutiveErrors)
      t2 == Rearm(t, who, result, ce2)
  IN /\ isSyncing' = FALSE
     /\ consecutiveErrors' = ce2
     /\ miningToken' = TokenAfter(miningToken, resp, write)
     /\ lastResp' = resp
     /\ lastResult' = result
     /\ lastNow' = now
     /\ prevErrors' = consecutiveErrors
     /\ prevClass' = lastClass
     /\ lastClass' = ClassOf(resp)
     /\ streak' = StreakAfter(resp, consecutiveErrors, streak)
     /\ timerPending' = t2.pending
     /\ syncTimeout' = t2.handle
     /\ armsSinceStart' = t2.arms
     /\ armedDelay' = t2.handle.delay
     /\ prevArmed' = armedDelay
     /\ rateLimitLeft' =
          IF ClassOf(resp) = "rate_limited" /\ Truthy(resp.next)
          THEN Max(left, Max(0, resp.next - now))
          ELSE left
     /\ caller' = "none"
     /\ sentSinceStart' = sent + ResendsAfter(resp)

\* A callback of the adaptive revision runs `await syncNode()`: t is the timer state
\* after the firing, left the rate-limit wait at that moment
CallSyncNode(who, t, left) ==
  IF AlreadySyncing(isSyncing)
  THEN \* syncNode returns already_syncing at once; the callback re-arms
       LET result == SkippedResult(consecutiveErrors)
           t2 == Rearm([t EXCEPT !.arms = armsSinceStart], who, result, consecutiveErrors)
       IN /\ lastCall' = "already_syncing"
          /\ lastResult' = result
          /\ timerPending' = t2.pending
          /\ syncTimeout' = t2.handle
          /\ armsSinceStart' = t2.arms
          /\ armedDelay' = t2.handle.delay
          /\ prevArmed' = armedDelay
          /\ rateLimitLeft' = left
          /\ UNCHANGED <<isSyncing, consecutiveErrors, inFlight, caller, miningToken,
                         lastResp, prevErrors, lastClass, prevClass, streak, lastNow,
                         lastWait, sentSinceStart>>
  ELSE \/ \* readNodeId and getSystemMetrics succeed: the request is sent
          /\ isSyncing' = TRUE
          /\ inFlight' = inFlight + 1
          /\ caller' = who
          /\ lastCall' = "started"
          /\ lastWait' = left
          /\ sentSinceStart' = 1
          /\ rateLimitLeft' = left
          /\ timerPending' = t.pending
          /\ syncTimeout' = t.handle
          /\ armsSinceStart' = 0
          /\ UNCHANGED <<consecutiveErrors, miningToken, lastResp, lastResult,
                         prevErrors, lastClass, prevClass, streak, armedDelay,
                         prevArmed, lastNow>>
       \/ \* 'Empty node ID' or 'Failed to get metrics' is thrown before the request
          /\ consecutiveErrors < MaxErrors
          /\ \E resp \in LocalFailures, now \in Clocks :
               Complete(resp, now, "written", who, [t EXCEPT !.arms = 0], left, 0)
          /\ lastCall' = "started"
          /\ UNCHANGED <<inFlight, lastWait>>

\* startService: setTimeout(async () => { await syncNode(); scheduleNextSync(..) }, 10000)
InitialSyncRepeats ==
  /\ variant = "adaptive" /\ running /\ initialTimer
  /\ initialTimer' = initialTimer
  /\ CallSyncNode("initial",
                  [pending |-> timerPending, handle |-> syncTimeout, arms |-> armsSinceStart],
                  rateLimitLeft)
  /\ UNCHANGED <<variant, running, signalled, ticks>>
  /\ UNCHANGED <<taskVars, storeVars, toolVars>>
InitialSyncFires ==
  /\ variant = "adaptive" /\ running /\ initialTimer
  /\ initialTimer' = FALSE
  /\ CallSyncNode("initial",
                  [pending |-> timerPending, handle |-> syncTimeout, arms |-> armsSinceStart],
                  rateLimitLeft)
  /\ UNCHANGED <<variant, running, signalled, ticks>>
  /\ UNCHANGED <<taskVars, storeVars, toolVars>>

\* The timer armed by scheduleNextSync fires, no earlier than its delay
ScheduledSyncFires ==
  /\ variant = "adaptive" /\ running
  /\ timerPending > 0 /\ syncTimeout.live
  /\ \E late \in Lateness :
       CallSyncNode("scheduled",
                    [pending |-> timerPending - 1,
                     handle |-> [syncTimeout EXCEPT !.live = FALSE],
                     arms |-> armsSinceStart],
                    Max(0, rateLimitLeft - (syncTimeout.delay + late)))
  /\ UNCHANGED <<variant, running, signalled, initialTimer, ticks>>
  /\ UNCHANGED <<taskVars, storeVars, toolVars>>

\* api.post settles (response, error status, timeout, connection failure)
ResponseArrives ==
  /\ variant = "adaptive" /\ running
  /\ inFlight > 0
  /\ \E now \in Clocks, lat \in Latencies :
       \E resp \in Responses(now), write \in WriteOutcomes :
         /\ resp.kind # "success" => consecutiveErrors < MaxErrors
         /\ (resp.kind # "success" \/ resp.token = NoToken) => write = "written"
         /\ Complete(resp, now, write, caller,
                     [pending |-> timerPending, handle |-> syncTimeout,
                      arms |-> armsSinceStart],
                     Max(0, rateLimitLeft -
                              (IF resp.kind = "timeout" THEN REQUEST_TIMEOUT ELSE lat)),
                     sentSinceStart)
  /\ inFlight' = inFlight - 1
  /\ UNCHANGED <<variant, running, signalled, initialTimer, lastCall, ticks, lastWait>>
  /\ UNCHANGED <<taskVars, storeVars, toolVars>>

\* SIGTERM / SIGINT: clearTimeout(syncTimeout); process.exit(0)
ShutdownWithoutExit ==
  /\ running /\ ~signalled
  /\ signalled' = TRUE
  /\ timerPending' = 0
  /\ syncTimeout' = [syncTimeout EXCEPT !.live = FALSE]
  /\ UNCHANGED <<variant, running, initialTimer, inFlight, isSyncing, consecutiveErrors,
                 caller, miningToken, rateLimitLeft, lastResp, lastResult, prevErrors,
                 lastClass, prevClass, streak, armedDelay, prevArmed, armsSinceStart,
                 lastCall, ticks, lastNow, lastWait, sentSinceStart>>
  /\ UNCHANGED <<taskVars, storeVars, toolVars>>
Shutdown ==
  /\ running
  /\ running' = FALSE
  /\ signalled' = TRUE
  /\ timerPending' = 0
  /\ syncTimeout' = [syncTimeout EXCEPT !.live = FALSE]
  /\ initialTimer' = FALSE
  /\ inFlight' = 0
  /\ UNCHANGED <<variant, isSyncing, consecutiveErrors, caller, miningToken,
                 rateLimitLeft, lastResp, lastResult, prevErrors, lastClass, prevClass,
                 streak, armedDelay, prevArmed, armsSinceStart, lastCall, ticks,
                 lastNow, lastWait, sentSinceStart>>
  /\ UNCHANGED <<taskVars, storeVars, toolVars>>

----------------------------------------------------------------------------
\* The interval revision (setTimeout 5 s, then setInterval 60 s)

\* syncNode called while isSyncing is set: logs and returns
syncNodeSkipThroughFinally ==
  /\ lastCall' = "already_syncing"
  /\ isSyncing' = FALSE
  /\ UNCHANGED <<inFlight, miningToken, consecutiveErrors, syncTimeout,
                 timerPending, caller, lastResp, lastNow>>
syncNodeSkip ==
  /\ lastCall' = "already_syncing"
  /\ UNCHANGED <<isSyncing, inFlight, miningToken, consecutiveErrors, syncTimeout,
                 timerPending, caller, lastResp, lastNow>>

\* syncNode of the interval revision up to its first await
IntervalCallSyncNode ==
  IF AlreadySyncing(isSyncing)
  THEN syncNodeSkip
  ELSE \/ \* the request is sent
          /\ isSyncing' = TRUE
          /\ inFlight' = inFlight + 1
          /\ caller' = "interval"
          /\ lastCall' = "started"
          /\ UNCHANGED <<miningToken, consecutiveErrors, syncTimeout, timerPending,
                         lastResp, lastNow>>
       \/ \* readNodeId or getSystemMetrics fails: catch, then finally clears the flag
          /\ \E resp \in LocalFailures : lastResp' = resp
          /\ isSyncing' = FALSE
          /\ lastCall' = "started"
          /\ UNCHANGED <<inFlight, miningToken, consecutiveErrors, syncTimeout,
                         timerPending, caller, lastNow>>

IntervalUnused ==
  /\ UNCHANGED <<variant, running, signalled, rateLimitLeft, lastResult, prevErrors, lastClass,
              prevClass, streak, armedDelay, prevArmed, armsSinceStart, lastWait,
              sentSinceStart>>
  /\ UNCHANGED <<taskVars, storeVars, toolVars>>

\* setTimeout(() => { syncNode(); }, 5000)
IntervalInitialFires ==
  /\ variant = "interval" /\ running /\ initialTimer
  /\ initialTimer' = FALSE
  /\ IntervalCallSyncNode
  /\ UNCHANGED ticks
  /\ IntervalUnused

\* setInterval(() => { syncNode(); }, 60000); the first tick comes after the
\* startup timer, and a request can outlast any number of ticks (the 30 s axios
\* timeout bounds socket inactivity, not the duration of the request)
IntervalTick ==
  /\ variant = "interval" /\ running /\ ~initialTimer
  /\ ticks < MaxTicks
  /\ ticks' = ticks + 1
  /\ IntervalCallSyncNode
  /\ UNCHANGED initialTimer
  /\ IntervalUnused

\* api.post settles in the interval revision
IntervalResponse ==
  /\ variant = "interval" /\ running
  /\ inFlight > 0
  /\ \E now \in Clocks, write \in WriteOutcomes :
       \E resp \in Responses(now) :
         /\ (resp.kind # "success" \/ resp.token = NoToken) => write = "written"
         /\ miningToken' = TokenAfter(miningToken, resp, write)
         /\ lastResp' = resp
         /\ lastNow' = now
  /\ isSyncing' = FALSE
  /\ inFlight' = inFlight - 1
  /\ caller' = IF inFlight = 1 THEN "none" ELSE caller
  /\ UNCHANGED <<consecutiveErrors, syncTimeout, timerPending, initialTimer, lastCall,
                 ticks>>
  /\ IntervalUnused

----------------------------------------------------------------------------
Next ==
  \/ InitialSyncFires
  \/ ScheduledSyncFires
  \/ ResponseArrives
  \/ IntervalInitialFires
  \/ IntervalTick
  \/ IntervalResponse
  \/ Shutdown

Spec == Init /\ [][Next]_vars

\* The adaptive revision while no SIGTERM / SIGINT is delivered.  The event loop runs
\* every timer that is due, and every api.post settles: with a response, an error
\* status, a connection failure or the axios timeout.
InitLive == Init /\ variant = "adaptive"

NextLive ==
  \/ InitialSyncFires
  \/ ScheduledSyncFires
  \/ ResponseArrives

SpecLive ==
  /\ InitLive
  /\ [][NextLive]_vars
  /\ WF_vars(InitialSyncFires)
  /\ WF_vars(ScheduledSyncFires)
  /\ WF_vars(ResponseArrives)

----------------------------------------------------------------------------
\* The task poller (src/task/task.js): processTasks and the functions it awaits.
\* The loop is one async function, so one request of it is outstanding at a time;
\* an action runs from one await to the next.  An auth code is named by the
\* getEncryptedAuthCode call that obtained it: the n-th api.post(AUTH_CODE_URL) yields
\* code n, and 0 stands for null / undefined.

\* taskCategory values: the one the code tests for, and one other
Categories == {"BLANK_TASK", "TTS_TASK"}

\* Contents id.txt can have
NodeIds == {"node-1", "node-2"}

\* What api.post(AUTH_CODE_URL) can settle with: success with a code, success without
\* one, success false, an error status, no response
AuthReplies == {"code", "no_code", "refused", "http_error", "failed"}

\* What api.post(TASK_PROVIDER_URL) can settle with
TaskReplies ==
  [kind : {"task"}, category : Categories, isBlankTask : BOOLEAN]
  \cup [kind : {"no_task", "refused", "refused_with_task", "http_error", "failed"},
        category : {""}, isBlankTask : {FALSE}]

\* What api.put(TASK_PROVIDER_URL) can settle with
CompletionReplies == {"acknowledged", "refused", "failed"}

\* The code a privileged request carries when none is obtained
NoCode == 0
NoPayload == ""

AuthRequest == [op |-> "auth", code |-> NoCode, category |-> "", result |-> NoPayload]

\* if (!miningToken) / if (!nodeId): a missing file gives null, an empty one ''
TokenNeverMissing(token) == FALSE
Missing(token) == token = ""

\* getEncryptedAuthCode after its api.post has settled; log ends with that request
getCachedAuthCode(reply, log) ==
  LET held == {log[i].code : i \in {j \in 1..Len(log) : log[j].op = "auth"}} \ {NoCode}
  IN IF held # {} THEN CHOOSE c \in held : \A d \in held : d <= c
     ELSE IF reply = "code"
          THEN Cardinality({i \in 1..Len(log) : log[i].op = "auth"})
          ELSE NoCode
getEncryptedAuthCode(reply, log) ==
  IF reply = "code"
  THEN Cardinality({i \in 1..Len(log) : log[i].op = "auth"})
  ELSE NoCode

\* result: taskCategory === 'BLANK_TASK' ? 'blank_task_completed' : 'tts_processing_completed'
CompletionResultNoneForBlank(taskCategory) ==
  IF taskCategory = "BLANK_TASK" THEN NoPayload ELSE "tts_processing_completed"
CompletionResult(taskCategory) ==
  IF taskCategory = "BLANK_TASK" THEN "blank_task_completed"
  ELSE "tts_processing_completed"

\* processTask: the time its branch waits
ProcessingTime(data) ==
  IF data.category = "BLANK_TASK" \/ data.isBlankTask
  THEN BLANK_TASK_DURATION ELSE TASK_DURATION

\* The log with the code of its last request filled in
WithCode(log, code) == [log EXCEPT ![Len(log)].code = code]

\* if (taskData && taskData.task)
HasTaskWheneverSuccess(data) == data.kind \in {"task", "no_task"}
HasTask(data) == data.kind = "task"

\* processTasks after await completeTaskOnServer(...), whose value (acknowledged or
\* not) it discards: log(`... completed successfully`)
ReportedAfter(acknowledged) == TRUE

\* The nodeId of the api.put body: the const nodeId of processTasks, not the one
\* getTaskFromServer read for the request that delivered the unit
CompletionNodeId(startupId, fetchId) == startupId

\* await new Promise(resolve => setTimeout(resolve, 3000)) at the end of an iteration
SleepUnlessFailed(outcome) ==
  /\ pc' = IF outcome \in {"fetch_failed", "not_completed"} THEN "stopped" ELSE "sleeping"
  /\ sleepMs' = POLL_INTERVAL
  /\ cycleOutcome' = outcome
Sleep(outcome) ==
  /\ pc' = "sleeping"
  /\ sleepMs' = POLL_INTERVAL
  /\ cycleOutcome' = outcome

\* An iteration starts: getTaskFromServer up to its first await
BeginCycle ==
  /\ cycles < MaxCycles
  /\ cycles' = cycles + 1
  /\ cycleFrom' = Len(netLog)
  /\ cycleToken' = miningToken
  /\ cycleNodeId' = nodeIdFile
  /\ reported' = FALSE
  /\ processMs' = 0
  /\ taskData' = NoTask
  /\ IF Missing(miningToken)
     THEN Sleep("no_token") /\ UNCHANGED netLog
     ELSE IF Missing(nodeIdFile)
     THEN Sleep("no_node_id") /\ UNCHANGED netLog
     ELSE /\ netLog' = Append(netLog, AuthRequest)
          /\ pc' = "fetch_auth"
          /\ cycleOutcome' = "fetching"
          /\ UNCHANGED sleepMs

\* processTasks(): const nodeId = getNodeId(); then the first iteration
StartProcessTasks ==
  /\ pc = "init"
  /\ nodeId' = nodeIdFile
  /\ BeginCycle
  /\ UNCHANGED <<nodeIdFile, sentNodeId, miningToken, syncOnly, storeVars, toolVars>>

\* The sleep of an iteration ends and the next iteration starts
SleepEnds ==
  /\ pc = "sleeping"
  /\ BeginCycle
  /\ UNCHANGED <<nodeIdFile, nodeId, sentNodeId, miningToken, syncOnly, storeVars, toolVars>>

\* getTaskFromServer: getEncryptedAuthCode settles; without a code it returns null,
\* with one it sends api.post(TASK_PROVIDER_URL, { miningToken, nodeId, authCode })
FetchAuthSettles ==
  /\ pc = "fetch_auth"
  /\ \E reply \in AuthReplies :
       LET authCode == getEncryptedAuthCode(reply, netLog)
       IN IF authCode = NoCode
          THEN /\ netLog' = WithCode(netLog, NoCode)
               /\ Sleep("no_auth_code")
               /\ UNCHANGED sentNodeId
          ELSE /\ netLog' = Append(WithCode(netLog, authCode),
                                   [op |-> "fetch", code |-> authCode, category |-> "",
                                    result |-> NoPayload])
               /\ sentNodeId' = [sentNodeId EXCEPT !.fetch = cycleNodeId]
               /\ pc' = "fetch_task"
               /\ UNCHANGED <<sleepMs, cycleOutcome>>
  /\ UNCHANGED <<nodeIdFile, nodeId, taskData, cycles, cycleFrom, cycleToken, processMs,
                 cycleNodeId, reported, miningToken, syncOnly, storeVars, toolVars>>

\* getTaskFromServer returns; processTasks takes one of its three branches, and with
\* a task starts processTask, which waits 1 s or 5 s
TaskProviderSettles ==
  /\ pc = "fetch_task"
  /\ \E reply \in TaskReplies :
       IF HasTask(reply)
       THEN /\ taskData' = reply
            /\ processMs' = ProcessingTime(reply)
            /\ pc' = "processing"
            /\ cycleOutcome' = "processing"
            /\ UNCHANGED sleepMs
       ELSE IF reply.kind = "no_task"
       THEN /\ taskData' = reply
            /\ Sleep("no_task")
            /\ UNCHANGED processMs
       ELSE /\ taskData' = NoTask
            /\ Sleep("fetch_failed")
            /\ UNCHANGED processMs
  /\ UNCHANGED <<nodeIdFile, nodeId, netLog, cycles, cycleFrom, cycleToken,
                 cycleNodeId, sentNodeId, reported, miningToken, syncOnly, storeVars, toolVars>>

\* processTask returns { success: true }; completeTaskOnServer reads the token and
\* calls getEncryptedAuthCode(miningToken, nodeId)
ProcessingEnds ==
  /\ pc = "processing"
  /\ netLog' = Append(netLog, AuthRequest)
  /\ pc' = "complete_auth"
  /\ cycleOutcome' = "completing"
  /\ UNCHANGED <<nodeIdFile, nodeId, taskData, cycles, cycleFrom, cycleToken, processMs,
                 sleepMs, cycleNodeId, sentNodeId, reported, miningToken, syncOnly,
                 storeVars, toolVars>>

\* completeTaskOnServer: getEncryptedAuthCode settles; without a code it returns
\* false, which processTasks does not read: it logs "completed successfully" and
\* sleeps.  With a code it sends
\* api.put(TASK_PROVIDER_URL, { taskId, nodeId, ..., authCode, result }), nodeId
\* being the argument processTasks passed: its own const nodeId
CompleteAuthSettles ==
  /\ pc = "complete_auth"
  /\ \E reply \in AuthReplies :
       LET authCode == getEncryptedAuthCode(reply, netLog)
       IN IF authCode = NoCode
          THEN /\ netLog' = WithCode(netLog, NoCode)
               /\ reported' = ReportedAfter(FALSE)
               /\ Sleep("not_completed")
               /\ UNCHANGED sentNodeId
          ELSE /\ netLog' = Append(WithCode(netLog, authCode),
                                   [op |-> "complete", code |-> authCode,
                                    category |-> taskData.category,
                                    result |-> CompletionResult(taskData.category)])
               /\ sentNodeId' = [sentNodeId EXCEPT !.complete = CompletionNodeId(nodeId, cycleNodeId)]
               /\ pc' = "complete_put"
               /\ UNCHANGED <<sleepMs, cycleOutcome, reported>>
  /\ UNCHANGED <<nodeIdFile, nodeId, taskData, cycles, cycleFrom, cycleToken, processMs,
                 cycleNodeId, miningToken, syncOnly, storeVars, toolVars>>

\* api.put settles; completeTaskOnServer returns true or false, which processTasks
\* does not read: it logs "completed successfully" and sleeps
CompletionSettles ==
  /\ pc = "complete_put"
  /\ \E reply \in CompletionReplies :
       /\ reported' = ReportedAfter(reply = "acknowledged")
       /\ Sleep(IF reply = "acknowledged" THEN "completed" ELSE "not_acknowledged")
  /\ UNCHANGED <<nodeIdFile, nodeId, taskData, netLog, cycles, cycleFrom, cycleToken,
                 processMs, cycleNodeId, sentNodeId, miningToken, syncOnly, storeVars, toolVars>>

\* id.txt is created, replaced or removed by whoever manages the node's identity
\* while the poller runs; getNodeId reads the file each time it is called
NodeIdFileChanges ==
  /\ \E id \in NodeIds \cup {NoNodeId} :
       /\ id # nodeIdFile
       /\ nodeIdFile' = id
  /\ UNCHANGED <<pc, nodeId, taskData, netLog, cycles, cycleFrom, cycleToken,
                 cycleOutcome, processMs, sleepMs, cycleNodeId, sentNodeId, reported,
                 miningToken, syncOnly, storeVars, toolVars>>

\* The sync service stores a token it received (saveToken of service.js)
SyncServiceSavesToken ==
  /\ \E token \in Tokens, write \in WriteOutcomes :
       /\ miningToken' = saveToken(miningToken, token, write)
       /\ miningToken' # miningToken
  /\ UNCHANGED <<taskVars, syncOnly, storeVars, toolVars>>

InitTask ==
  /\ variant = "adaptive"
  /\ SyncStart
  /\ TaskStart({NoNodeId, "node-1"})
  /\ StoreStart
  /\ ToolsStart

NextTask ==
  \/ StartProcessTasks
  \/ SleepEnds
  \/ FetchAuthSettles
  \/ TaskProviderSettles
  \/ ProcessingEnds
  \/ CompleteAuthSettles
  \/ CompletionSettles
  \/ SyncServiceSavesToken
  \/ NodeIdFileChanges

SpecTask == InitTask /\ [][NextTask]_vars

\* The poller while its process is not ended from outside.  The event loop runs the
\* timers of the sleeps and of processTask when they are due, and every request of
\* api settles, at the latest by the axios timeout of 30 s.
SpecTaskLive ==
  /\ InitTask
  /\ [][NextTask]_vars
  /\ WF_vars(StartProcessTasks)
  /\ WF_vars(SleepEnds)
  /\ WF_vars(FetchAuthSettles)
  /\ WF_vars(TaskProviderSettles)
  /\ WF_vars(ProcessingEnds)
  /\ WF_vars(CompleteAuthSettles)
  /\ WF_vars(CompletionSettles)

----------------------------------------------------------------------------
\* The credential store: miningtoken.txt, written by saveToken of the sync service
\* (service.js) and read by getMiningToken of the task poller (task.js), which runs
\* in another process.  The file is a sequence of characters.

\* One character that String.prototype.trim keeps and one it strips
Whitespace == {" "}
Chars == {"a"} \cup Whitespace

\* Values of response.data.miningToken that pass if (response.data.miningToken)
TokenStrings == UNION {[1..n -> Chars] : n \in 1..MaxTokenLen}

RECURSIVE TrimStart(_)
TrimStart(str) ==
  IF str # <<>> /\ Head(str) \in Whitespace THEN TrimStart(Tail(str)) ELSE str

RECURSIVE TrimEnd(_)
TrimEnd(str) ==
  IF str # <<>> /\ str[Len(str)] \in Whitespace
  THEN TrimEnd(SubSeq(str, 1, Len(str) - 1)) ELSE str

\* String.prototype.trim
IsNotSpace(c) == c \notin Whitespace
trimAll(str) == SelectSeq(str, IsNotSpace)
trim(str) == TrimEnd(TrimStart(str))

\* getMiningToken: null without the file or on a read error, else the trimmed text
getMiningToken(file, readOk) ==
  IF file.exists /\ readOk
  THEN [kind |-> "string", value |-> trim(file.data)]
  ELSE [kind |-> "null", value |-> <<>>]

\* saveToken(token): fs.writeFileSync opens TOKEN_PATH with flag 'w', which creates
\* or empties the file, or fails to open it
SaveOpens ==
  /\ saving.pc = "idle" /\ saves < MaxSaves
  /\ saves' = saves + 1
  /\ \E token \in TokenStrings :
       \/ /\ tokenFile' = [exists |-> TRUE, data |-> <<>>]
          /\ saving' = [pc |-> "writing", token |-> token, before |-> tokenFile,
                        ok |-> FALSE]
       \/ /\ saving' = [NotSaving EXCEPT !.token = token]
          /\ UNCHANGED tokenFile
  /\ UNCHANGED <<lastLoad, miningToken, syncOnly, taskVars, toolVars>>

\* fs.writeFileSync writes: each write call appends some of the remaining characters;
\* after the last one the file is closed and saveToken reads it back
SaveWrites ==
  /\ saving.pc = "writing"
  /\ \E n \in (Len(tokenFile.data) + 1)..Len(saving.token) :
       /\ tokenFile' = [tokenFile EXCEPT !.data = SubSeq(saving.token, 1, n)]
       /\ saving' = IF n = Len(saving.token)
                    THEN [pc |-> "idle", token |-> saving.token, before |-> NoFile,
                          ok |-> TRUE]
                    ELSE saving
  /\ UNCHANGED <<saves, lastLoad, miningToken, syncOnly, taskVars, toolVars>>

\* A write call fails: saveToken catches and logs, the file stays as it is
SaveWriteFails ==
  /\ saving.pc = "writing"
  /\ saving' = [NotSaving EXCEPT !.token = saving.token]
  /\ UNCHANGED <<tokenFile, saves, lastLoad, miningToken, syncOnly, taskVars, toolVars>>

\* The poller calls getMiningToken.  lastLoad keeps what it returned and what the
\* store was then: whether the read worked, whether the file was missing or empty,
\* whether a save was under way (then: what a load before it would have returned),
\* whether the last save had completed, and the token of that save
Load ==
  /\ \E readOk \in BOOLEAN :
       LET got == getMiningToken(tokenFile, readOk)
           during == saving.pc = "writing"
       IN lastLoad' = [kind |-> got.kind, value |-> got.value, readOk |-> readOk,
                       empty |-> ~tokenFile.exists \/ tokenFile.data = <<>>,
                       during |-> during, saved |-> saving.ok, token |-> saving.token,
                       old |-> IF during THEN getMiningToken(saving.before, TRUE).value
                               ELSE <<>>]
  /\ lastLoad' # lastLoad
  /\ UNCHANGED <<tokenFile, saving, saves, miningToken, syncOnly, taskVars, toolVars>>

InitStore ==
  /\ variant = "adaptive"
  /\ SyncStart
  /\ TaskStart({"node-1"})
  /\ StoreStart
  /\ ToolsStart

NextStore ==
  \/ SaveOpens
  \/ SaveWrites
  \/ SaveWriteFails
  \/ Load

SpecStore == InitStore /\ [][NextStore]_vars

----------------------------------------------------------------------------
\* Properties

Adaptive == variant = "adaptive"

\* The clamp of the specification: max(minDelay, min(maxDelay, wait + safetyBuffer))
Clamped(wait) == Max(minDelay, Min(maxDelay, wait + SYNC_BUFFER))

\* C1: in both revisions that carry isSyncing, at most one sync request is in flight
\* in every reachable state, and a request in flight means the flag is set.
C1_AtMostOneInFlight ==
  /\ inFlight <= 1
  /\ inFlight = 1 => isSyncing

\* A tick of the interval revision found the request of an earlier call outstanding
C1_TickWhileOutstanding ==
  /\ variant = "interval"
  /\ ticks > 0
  /\ lastCall = "already_syncing"
  /\ inFlight = 1

\* A step in which a timer callback calls syncNode
SyncNodeCalled ==
  InitialSyncFires \/ ScheduledSyncFires \/ IntervalInitialFires \/ IntervalTick

\* C2: a call of syncNode made while isSyncing is true sends no request and leaves
\* isSyncing, consecutiveErrors, the stored mining token and the armed timer as they
\* were; the flag of the running attempt stays set.
C2_SkipHasNoSideEffect ==
  [][(isSyncing /\ SyncNodeCalled) =>
       /\ UNCHANGED <<isSyncing, consecutiveErrors, miningToken, inFlight>>
       /\ variant = "interval" => UNCHANGED <<syncTimeout, timerPending>>
       /\ lastCall' = "already_syncing"]_vars

\* Two ticks in a row were skipped while the same request stayed outstanding
C2_SkippedCall ==
  /\ variant = "interval"
  /\ ticks >= 2
  /\ lastCall = "already_syncing"
  /\ isSyncing
  /\ inFlight = 1

\* C3: every delay the adaptive revision passes to a timer that starts a sync (the
\* initial one and every re-arming) is strictly positive.
C3_DelayPositive ==
  Adaptive => armedDelay > 0

\* The timer was re-armed after the server named a time that is not in the future
C3_RearmedAfterPastTime ==
  /\ Adaptive
  /\ lastClass \in {"success", "rate_limited"}
  /\ Truthy(lastResp.next) /\ lastResp.next <= lastNow
  /\ armsSinceStart = 1
  /\ armedDelay > 0

\* C4: in the adaptive revision a completed attempt is followed by exactly one arming
\* of the next-sync timer, none happens while an attempt runs, and at most one timer
\* that starts a sync is pending at any moment.
C4_OneArmingPerAttempt ==
  Adaptive =>
    /\ timerPending + (IF initialTimer THEN 1 ELSE 0) <= 1
    /\ isSyncing => (armsSinceStart = 0 /\ timerPending = 0)
    /\ (lastClass # "none" /\ ~isSyncing) => armsSinceStart = 1
    /\ (running /\ lastClass # "none" /\ ~isSyncing) => timerPending = 1

\* A second attempt has completed and its single timer is pending
C4_RearmedAgain ==
  /\ Adaptive /\ running
  /\ prevClass # "none" /\ lastClass # "none"
  /\ ~isSyncing
  /\ armsSinceStart = 1 /\ timerPending = 1

\* C5: after a completed attempt whose response was 2xx with success === true,
\* consecutiveErrors is 0, whatever it was before and whatever else the body held.
C5_SuccessResetsErrors ==
  (Adaptive /\ lastClass = "success") =>
    (consecutiveErrors = 0 /\ lastResult.consecutiveErrors = 0)

\* A success without token and without next-sync time ended a streak of errors
C5_ResetAfterErrors ==
  /\ Adaptive
  /\ lastClass = "success"
  /\ prevErrors >= 3
  /\ lastResp.token = NoToken /\ ~Truthy(lastResp.next)
  /\ consecutiveErrors = 0

\* C6: after every transient failure (5xx, no response, timeout) the armed delay lies
\* in [minDelay, maxDelay] and is not smaller than the delay armed after the
\* transient failure right before it.
C6_TransientDelayBoundedMonotone ==
  (Adaptive /\ lastClass = "transient") =>
    /\ minDelay <= armedDelay /\ armedDelay <= maxDelay
    /\ prevClass = "transient" => prevArmed <= armedDelay

\* C7: counted from consecutiveErrors = 0, the delays armed after the first three
\* consecutive transient errors increase strictly, and after any number of them the
\* delay never exceeds maxDelay and from the fourth on never decreases.
C7_TransientDelaysIncreaseThenSaturate ==
  Adaptive =>
    /\ streak \in {2, 3} => prevArmed < armedDelay
    /\ streak >= 1 => armedDelay <= maxDelay
    /\ streak >= 4 => prevArmed <= armedDelay

\* C8 as stated: after a success the armed delay is the clamp of
\* nextAllowedAt - now + safetyBuffer for every time the server supplied, and
\* baseInterval when it supplied none.
C8_SuccessDelayClampedAlways ==
  (Adaptive /\ lastClass = "success") =>
    armedDelay = (IF Truthy(lastResp.next) THEN Clamped(lastResp.next - lastNow)
                  ELSE BASE_SYNC_INTERVAL)

\* C8 (amended): after a success the armed delay is the clamp of
\* nextAllowedAt - now + safetyBuffer when the server supplied a time after now, and
\* baseInterval when it supplied none or one that is not after now.
C8_SuccessDelay ==
  (Adaptive /\ lastClass = "success") =>
    armedDelay = (IF Truthy(lastResp.next) /\ lastResp.next > lastNow
                  THEN Clamped(lastResp.next - lastNow)
                  ELSE BASE_SYNC_INTERVAL)

\* Scenario A: success with nextSyncAllowed = now + 90000 armed 93000
C8_ScenarioA ==
  /\ Adaptive
  /\ lastClass = "success"
  /\ lastResp.next = lastNow + 90000
  /\ armedDelay = 90000 + SYNC_BUFFER

\* C9: after a 429 that states an earliest-retry time T, no sync request is sent
\* before T (no request is sent while time is left until T).
C9_RateLimitHonored ==
  Adaptive => lastWait = 0

\* C10 as stated: after a 429 that states a time, the armed delay is the stated wait
\* plus safetyBuffer clamped to [minDelay, maxDelay].
C10_RateLimitDelayClampedAlways ==
  (Adaptive /\ lastClass = "rate_limited" /\ Truthy(lastResp.next)) =>
    armedDelay = Clamped(lastResp.next - lastNow)

\* C10 (amended): after a 429 that states a time after now, the armed delay is the
\* stated wait plus safetyBuffer clamped to [minDelay, maxDelay], whatever
\* consecutiveErrors is; when the stated time is not after now it is baseInterval.
C10_RateLimitDelay ==
  (Adaptive /\ lastClass = "rate_limited" /\ Truthy(lastResp.next)) =>
    armedDelay = (IF lastResp.next > lastNow THEN Clamped(lastResp.next - lastNow)
                  ELSE BASE_SYNC_INTERVAL)

\* A 429 with a stated wait of 90000 arrived after several errors and armed 93000
C10_RateLimitedAfterErrors ==
  /\ Adaptive
  /\ lastClass = "rate_limited"
  /\ lastResp.next = lastNow + 90000
  /\ prevErrors >= 4
  /\ armedDelay = 90000 + SYNC_BUFFER

\* 2 ^ n and 3 ^ n
RECURSIVE Pow(_, _)
Pow(b, n) == IF n = 0 THEN 1 ELSE b * Pow(b, n - 1)

\* C11: after a 429 without a time the armed delay is
\* baseInterval * backoffMultiplier ^ min(consecutiveErrors, cap), the multiplier being
\* the one of the first error (93000 / 62000 = 3/2) and the cap the code's 5.
C11_RateLimitFallbackExponential ==
  (Adaptive /\ lastClass = "rate_limited" /\ ~Truthy(lastResp.next)) =>
    LET k == Min(consecutiveErrors, 5)
    IN armedDelay * Pow(2, k) = BASE_SYNC_INTERVAL * Pow(3, k)

\* C12: after HTTP 400, 403 or 404 consecutiveErrors is one more than before the
\* attempt and the next attempt is armed at exactly baseInterval.
C12_PermanentErrorAtBase ==
  (Adaptive /\ lastClass = "permanent") =>
    /\ consecutiveErrors = prevErrors + 1
    /\ armedDelay = BASE_SYNC_INTERVAL

\* A permanent error came on top of many errors
C12_PermanentAfterManyErrors ==
  /\ Adaptive
  /\ lastClass = "permanent"
  /\ prevErrors >= 6
  /\ armedDelay = BASE_SYNC_INTERVAL

\* C13: a 429 never resets the error counter: it is at least what it was before.
C13_RateLimitKeepsErrors ==
  (Adaptive /\ lastClass = "rate_limited") =>
    /\ consecutiveErrors >= prevErrors
    /\ lastResult.consecutiveErrors >= prevErrors

\* A 429 arrived when errors had been counted
C13_RateLimitedWithErrors ==
  /\ Adaptive
  /\ lastClass = "rate_limited"
  /\ prevErrors >= 2
  /\ consecutiveErrors > 0

PermanentStatus(resp) ==
  resp.kind = "http_error" /\ resp.status \in {400, 403, 404}
TransientFailure(resp) ==
  \/ resp.kind \in {"timeout", "network_error"}
  \/ resp.kind = "http_error" /\ resp.status >= 500
AllResponses == UNION {Responses(now) : now \in Clocks}
PermanentReasons == {ReasonOf(r) : r \in {x \in AllResponses : PermanentStatus(x)}}
TransientReasons == {ReasonOf(r) : r \in {x \in AllResponses : TransientFailure(x)}}

\* C14: the result of an attempt names HTTP 400/403/404 with a reason no transient
\* failure gets, and a timeout, a connection failure and every 5xx with a reason no
\* permanent status gets; both are failures, and no reason serves both classes.
C14_ReasonsKeepClassesApart ==
  Adaptive =>
    /\ PermanentStatus(lastResp) =>
         /\ lastResult.reason \in {"bad_request", "permission_denied", "not_found"}
         /\ lastResult.reason \notin TransientReasons
         /\ ~lastResult.success
    /\ TransientFailure(lastResp) =>
         /\ lastResult.reason \in {"server_error", "timeout", "network_error"}
         /\ lastResult.reason \notin PermanentReasons
         /\ ~lastResult.success

\* A permanent status was reported right after a transient failure
C14_PermanentAfterTransient ==
  /\ Adaptive
  /\ PermanentStatus(lastResp) /\ lastResp.status = 404
  /\ prevClass = "transient"
  /\ lastResult.reason = "not_found"

\* C15: when the request times out, the attempt ends with isSyncing cleared and
\* consecutiveErrors incremented, and the armed delay follows the transient backoff:
\* it is strictly greater than baseInterval.
C15_TimeoutBacksOff ==
  (Adaptive /\ lastResp.kind = "timeout" /\ armsSinceStart = 1) =>
    /\ ~isSyncing
    /\ consecutiveErrors = prevErrors + 1
    /\ armedDelay > BASE_SYNC_INTERVAL

\* C16: an attempt sends at most one request to the sync endpoint, whatever the
\* response or failure; a request in flight is the one request of the running attempt.
C16_OneRequestPerAttempt ==
  Adaptive =>
    /\ sentSinceStart <= 1
    /\ inFlight <= sentSinceStart

\* An attempt whose single request failed without a response has ended
C16_FailedWithoutRetry ==
  /\ Adaptive
  /\ lastResp.kind \in {"timeout", "network_error"}
  /\ ~isSyncing /\ armsSinceStart = 1
  /\ sentSinceStart = 1

\* A sync attempt starts: a timer callback calls syncNode, which passes the isSyncing
\* check and sets the flag or fails before its request
AttemptStarts ==
  (InitialSyncFires \/ ScheduledSyncFires) /\ lastCall' = "started"

\* An attempt completes: its request settles, or it fails before the request
AttemptCompletes ==
  ResponseArrives \/ (AttemptStarts /\ ~isSyncing')

\* C17: without a termination signal, every completed attempt, whatever its outcome,
\* leaves isSyncing false and the process running, and another attempt starts later
C17_LoopNeverStops ==
  /\ [][AttemptCompletes => (~isSyncing' /\ running' /\ timerPending' = 1)]_vars
  /\ []<><<AttemptStarts>>_vars

\* An attempt that ended in an outcome outside the enumerated classes, with the error
\* counter at the warning limit, was followed by the start of another
C17_StartedAfterUnclassified ==
  /\ Adaptive /\ running
  /\ lastClass = "other" /\ consecutiveErrors >= MAX_CONSECUTIVE_ERRORS
  /\ isSyncing /\ inFlight = 1

----------------------------------------------------------------------------
\* Properties of the task poller

\* Task fetch and task completion
Privileged(i) == netLog[i].op \in {"fetch", "complete"}

\* The requests of the running iteration
CycleRequests == SubSeq(netLog, cycleFrom + 1, Len(netLog))

\* C18: every task fetch and every task completion carries the code obtained by the
\* getEncryptedAuthCode call made just before it, no code is sent in two requests, and
\* a completion follows two broker calls whose codes differ
C18_FreshCodePerRequest ==
  /\ \A i \in 1..Len(netLog) :
       Privileged(i) =>
         /\ i > 1
         /\ netLog[i - 1].op = "auth"
         /\ netLog[i].code # NoCode
         /\ netLog[i].code = netLog[i - 1].code
  /\ \A i, j \in 1..Len(netLog) :
       (Privileged(i) /\ Privileged(j) /\ i # j) => netLog[i].code # netLog[j].code
  /\ \A i \in 1..Len(netLog) :
       netLog[i].op = "complete" =>
         /\ i >= 4
         /\ netLog[i - 2].op = "fetch"
         /\ netLog[i - 3].op = "auth"
         /\ netLog[i - 3].code # netLog[i - 1].code
         /\ netLog[i - 2].code # netLog[i].code

\* A second task is being completed
C18_SecondCompletionSent ==
  /\ pc = "complete_put"
  /\ Cardinality({i \in 1..Len(netLog) : netLog[i].op = "complete"}) = 2

\* C19: an iteration that finds no mining token sends no request, one that gets no
\* auth code sends no task request, and both sleep 3000 ms, after which the next
\* iteration starts
C19_NoCredentialNoRequest ==
  pc = "sleeping" =>
    /\ sleepMs = POLL_INTERVAL
    /\ cycleToken = NoToken => (cycleOutcome = "no_token" /\ CycleRequests = <<>>)
    /\ cycleOutcome = "no_auth_code" => CycleRequests = <<AuthRequest>>
    /\ cycles < MaxCycles => ENABLED SleepEnds

\* An iteration without a token was followed by one that got no auth code
C19_NoTokenThenNoAuthCode ==
  /\ pc = "sleeping" /\ cycleOutcome = "no_auth_code"
  /\ cycles = 2 /\ cycleFrom = 0 /\ Len(netLog) = 1

\* C20: a completion always carries a result, 'blank_task_completed' for the category
\* BLANK_TASK and 'tts_processing_completed' for any other, and processTask has run
\* before it for both, for 1000 ms when the category is BLANK_TASK or the task is
\* flagged isBlankTask and for 5000 ms otherwise
C20_CompletionCarriesResult ==
  /\ \A i \in 1..Len(netLog) :
       netLog[i].op = "complete" =>
         /\ netLog[i].result # NoPayload
         /\ netLog[i].result = IF netLog[i].category = "BLANK_TASK"
                               THEN "blank_task_completed"
                               ELSE "tts_processing_completed"
  /\ pc = "complete_put" =>
       /\ netLog[Len(netLog)].op = "complete"
       /\ netLog[Len(netLog)].category = taskData.category
       /\ processMs = IF taskData.category = "BLANK_TASK" \/ taskData.isBlankTask
                      THEN BLANK_TASK_DURATION ELSE TASK_DURATION

\* The completion of a BLANK_TASK has been sent
C20_BlankTaskCompletionSent ==
  /\ pc = "complete_put"
  /\ taskData.category = "BLANK_TASK"
  /\ netLog[Len(netLog)].op = "complete"

\* C20 as stated: a result payload for a standard task, processed first, and none
\* for a BLANK_TASK
C20_NoPayloadForPlaceholder ==
  /\ \A i \in 1..Len(netLog) :
       netLog[i].op = "complete" =>
         IF netLog[i].category = "BLANK_TASK"
         THEN netLog[i].result = NoPayload
         ELSE netLog[i].result # NoPayload
  /\ (pc = "complete_put" /\ taskData.category # "BLANK_TASK") => processMs > 0

----------------------------------------------------------------------------
\* Properties of the credential store as the sync service uses it

\* A response is handled (either revision)
ResponseHandled == ResponseArrives \/ IntervalResponse

\* C23: miningtoken.txt changes only in the step that handles a response with
\* success === true and a token, while that one attempt is in flight and isSyncing is
\* set; what the file then holds comes from saveToken
C23_SingleWriter ==
  [][miningToken' # miningToken =>
       /\ ResponseHandled
       /\ isSyncing /\ inFlight = 1
       /\ lastResp'.kind = "success" /\ lastResp'.token # NoToken
       /\ \E write \in WriteOutcomes :
            miningToken' = saveToken(miningToken, lastResp'.token, write)]_vars

\* The token of the last response has been written, after an earlier success
C23_TokenWritten ==
  /\ lastResp.kind = "success" /\ lastResp.token # NoToken
  /\ miningToken = lastResp.token
  /\ ~isSyncing /\ inFlight = 0
  /\ Adaptive /\ prevClass = "success"

\* The step handled a success whose token the file does not hold afterwards
WriteFailed ==
  /\ ResponseArrives
  /\ lastResp'.kind = "success" /\ lastResp'.token # NoToken
  /\ miningToken' # lastResp'.token

\* C26: when the write of the token fails, the attempt still ends as a success with
\* the counter at 0 and the flag cleared, the next attempt is armed, the process
\* runs on, and the file holds the token it held before
C26_WriteFailureKeepsToken ==
  [][WriteFailed =>
       /\ consecutiveErrors' = 0 /\ lastResult'.success
       /\ ~isSyncing' /\ running'
       /\ timerPending' = 1 /\ syncTimeout'.live
       /\ miningToken' = miningToken]_vars

\* C27: a success without a token resets consecutiveErrors, arms the success delay
\* and leaves miningtoken.txt as it is
C27_SuccessWithoutToken ==
  /\ [][(ResponseHandled /\ lastResp'.kind = "success" /\ lastResp'.token = NoToken)
          => miningToken' = miningToken]_vars
  /\ [](( Adaptive /\ lastClass = "success" /\ lastResp.token = NoToken) =>
          /\ consecutiveErrors = 0
          /\ lastResult.success
          /\ armedDelay = calculateNextSyncDelay(lastResp.next, lastNow))

\* A success without a token ended a run of errors while a token was stored
C27_StoredTokenKept ==
  /\ Adaptive
  /\ lastClass = "success" /\ lastResp.token = NoToken
  /\ miningToken # NoToken
  /\ prevErrors >= 1 /\ consecutiveErrors = 0

C30_RateLimitDoesNotCount ==
  (Adaptive /\ lastClass = "rate_limited") =>
    (consecutiveErrors = prevErrors /\ lastResult.consecutiveErrors = prevErrors)

----------------------------------------------------------------------------
\* Properties of the task poller: failures and idle cycles

\* Outcomes of an iteration that did not complete a task
FailedOutcomes ==
  {"no_token", "no_node_id", "no_auth_code", "fetch_failed", "not_completed",
   "not_acknowledged"}

\* C21: whatever step of an iteration fails, the poller goes to its 3000 ms sleep, and
\* every iteration is followed by the next
C21_FailedCycleContinues ==
  /\ [](cycleOutcome \in FailedOutcomes => (pc = "sleeping" /\ sleepMs = POLL_INTERVAL))
  /\ \A n \in 0..(MaxCycles - 1) : (cycles = n) ~> (cycles = n + 1)

\* An iteration has started after one whose completion got no auth code
C21_CycleAfterFailedCompletion ==
  /\ cycles = 2 /\ pc = "fetch_auth"
  /\ Len(netLog) = 4
  /\ netLog[2].op = "fetch"
  /\ netLog[3].op = "auth" /\ netLog[3].code = NoCode

\* C22: after { success: true } without a task the iteration has sent its auth-code
\* request and its task request and nothing else, the poller sleeps 3000 ms, and the
\* step changes neither miningtoken.txt nor id.txt
C22_NoTaskCycle ==
  /\ [](taskData.kind = "no_task" =>
          /\ pc = "sleeping" /\ cycleOutcome = "no_task"
          /\ sleepMs = POLL_INTERVAL
          /\ Len(CycleRequests) = 2
          /\ CycleRequests[1].op = "auth" /\ CycleRequests[2].op = "fetch"
          /\ processMs = 0)
  /\ [][TaskProviderSettles => (miningToken' = miningToken /\ nodeIdFile' = nodeIdFile)]_vars

\* The second iteration found no task
C22_SecondCycleIdle ==
  /\ taskData.kind = "no_task" /\ pc = "sleeping"
  /\ cycles = 2 /\ miningToken # NoToken

\* C28: what getEncryptedAuthCode returns when the server rejects the token differs
\* from what it returns when the request fails without a response
C28_RejectionToldApart ==
  pc \in {"fetch_auth", "complete_auth"} =>
    /\ getEncryptedAuthCode("http_error", netLog) # getEncryptedAuthCode("failed", netLog)
    /\ getEncryptedAuthCode("refused", netLog) # getEncryptedAuthCode("failed", netLog)

----------------------------------------------------------------------------
\* Properties of the credential store, byte by byte

\* 'no token' for a caller that tests if (!miningToken): null or the empty string
Absent(load) == load.kind = "null" \/ load.value = <<>>

\* str without the whitespace at its two ends, stated without trim
Stripped(str, out) ==
  \E i \in 1..(Len(str) + 1), j \in 0..Len(str) :
    /\ out = SubSeq(str, i, j)
    /\ \A k \in 1..(i - 1) : str[k] \in Whitespace
    /\ \A k \in (j + 1)..Len(str) : str[k] \in Whitespace
    /\ out # <<>> => (out[1] \notin Whitespace /\ out[Len(out)] \notin Whitespace)

\* C24 as stated: a load after a completed save returns exactly the saved token, and
\* a load of a missing or empty file returns Absent
C24_RoundTripExact ==
  /\ (lastLoad.saved /\ lastLoad.readOk) =>
       (lastLoad.kind = "string" /\ lastLoad.value = lastLoad.token)
  /\ (lastLoad.kind # "none" /\ lastLoad.empty) => Absent(lastLoad)

\* C24: a load after a completed save returns the saved token without the whitespace
\* at its ends, which is the token itself when it has none there; a load of a
\* missing or empty file returns null or ''
C24_RoundTripTrimmed ==
  /\ (lastLoad.saved /\ lastLoad.readOk) =>
       /\ lastLoad.kind = "string"
       /\ Stripped(lastLoad.token, lastLoad.value)
       /\ (lastLoad.token[1] \notin Whitespace
             /\ lastLoad.token[Len(lastLoad.token)] \notin Whitespace)
            => lastLoad.value = lastLoad.token
  /\ (lastLoad.kind # "none" /\ lastLoad.empty) => Absent(lastLoad)

\* A token that ends in whitespace was saved and then loaded
C24_LoadedAfterSave ==
  /\ lastLoad.saved /\ lastLoad.readOk /\ ~lastLoad.during
  /\ lastLoad.token = <<"a", " ">>
  /\ saves = 2

\* C25: a load that runs while saveToken is writing returns what a load before the
\* save would have returned, or the new token
C25_LoadSeesOldOrNew ==
  (lastLoad.during /\ lastLoad.readOk) =>
    lastLoad.value \in {lastLoad.old, trim(lastLoad.token)}

----------------------------------------------------------------------------
\* Properties of the adaptive scheduler: the counter, the chain of timers, the delay

\* C34: consecutiveErrors changes only in the step that completes an attempt, to 0 or
\* by one; an attempt that ends neither in a success nor in a 429 (success not true,
\* empty body, no node ID, no metrics, another status, another error) adds one, and
\* one that fits no backoff rule writes no token and arms BASE_SYNC_INTERVAL
C34_CounterStepsByOne ==
  /\ [][consecutiveErrors' # consecutiveErrors =>
          /\ AttemptCompletes
          /\ consecutiveErrors' \in {0, consecutiveErrors + 1}]_vars
  /\ [][(AttemptCompletes /\ lastClass' \notin {"success", "rate_limited"}) =>
          /\ consecutiveErrors' = consecutiveErrors + 1
          /\ miningToken' = miningToken
          /\ (lastClass' \in {"other", "permanent"} \/ lastResp'.kind = "timeout")
               => armedDelay' = BASE_SYNC_INTERVAL]_vars

\* A 2xx body with success not true carried a token, which was not stored
C34_TokenOfFailureIgnored ==
  /\ Adaptive
  /\ lastResp.kind = "api_error" /\ lastResp.token # NoToken
  /\ miningToken # lastResp.token
  /\ consecutiveErrors = prevErrors + 1 /\ prevErrors >= 1

\* C35: while an attempt is in flight no timer of the chain is pending, and no call
\* of syncNode finds isSyncing set
C35_TimerOnlyAfterReturn ==
  Adaptive =>
    /\ isSyncing => (timerPending = 0 /\ ~initialTimer /\ (running => inFlight = 1))
    /\ lastCall # "already_syncing"
    /\ timerPending + (IF initialTimer THEN 1 ELSE 0) <= 1

\* The attempt the re-armed timer started is in flight
C35_SecondAttemptInFlight ==
  /\ Adaptive /\ running
  /\ isSyncing /\ caller = "scheduled"
  /\ lastClass # "none"

\* C36: once an attempt has completed, the armed delay is the nextSyncDelay it
\* returned and lies in [60000, 260400]: neither fallback of the timer callback nor
\* its 30000 ms floor sets it
C36_ArmedDelayIsReturnedDelay ==
  (Adaptive /\ lastClass # "none") =>
    /\ armedDelay = lastResult.nextSyncDelay
    /\ armedDelay >= minDelay
    /\ armedDelay <= (BASE_SYNC_INTERVAL * 42) \div 10
    /\ armedDelay > MIN_SCHEDULE_DELAY

\* The largest delay: a connection failure with eight or more errors counted
C36_LargestDelayArmed ==
  /\ Adaptive
  /\ lastResp.kind = "network_error" /\ consecutiveErrors >= 9
  /\ armedDelay = 260400


----------------------------------------------------------------------------
\* C31: a work unit is reported completed only after the server acknowledged the
\* completion request: an iteration that has logged "completed successfully" is one
\* whose api.put was answered with success.
C31_ReportedOnlyIfAcknowledged ==
  reported => cycleOutcome = "completed"

\* C37: the node identity of the completion request equals the one of the task
\* request that delivered the unit.
\* (a completion request has been sent in the running iteration when the iteration
\* waits for api.put or has ended with its answer)
C37_CompletionSendsFetchIdentity ==
  (pc = "complete_put" \/ cycleOutcome \in {"completed", "not_acknowledged"})
     => sentNodeId.complete = sentNodeId.fetch


----------------------------------------------------------------------------
\* The mining starter (src/system/mining/start-mining.js): one async main function
\* that loads the wallet, waits, then loops: read the token, call the start-mining
\* API, and either retry after a sleep, return, or throw into the outer catch, which
\* calls process.exit(1).  The token file is the one the sync service writes.

INITIAL_DELAY_MS == 60000
RETRY_DELAY_MS == 300000

\* Requests the loop may send
MaxMineCalls == 3

\* response.status values: one 2xx, the three the loop names, one other
MineStatuses == {200, 400, 401, 429, 500}

\* What response.json() gives: a rejection, or an object with these status fields
\* ('ready_to_mine' with and without txData)
MineBodies == {"invalid_json", "already_mining", "ready_to_mine", "ready_without_tx", "error"}

\* What fetch settles with: a response, or a rejection (no connection)
MiningReplies ==
  [kind : {"response"}, status : MineStatuses, body : MineBodies]
  \cup {[kind |-> "no_response", status |-> 0, body |-> ""]}

\* response.ok
ResponseOk(status) == status >= 200 /\ status <= 299

\* The loop body after fetch has settled: where the main function goes next
AfterMiningReply(reply) ==
  IF reply.kind = "no_response" THEN "exited"
  ELSE IF reply.body = "invalid_json" THEN "exited"
  ELSE IF reply.status = 401 THEN "retry_wait"
  ELSE IF reply.status = 400 THEN "returned"
  ELSE IF reply.status = 429 THEN "retry_wait"
  ELSE IF ~ResponseOk(reply.status) THEN "retry_wait"
  ELSE IF reply.body = "already_mining" THEN "returned"
  ELSE IF reply.body # "ready_to_mine" THEN "exited"
  ELSE "sending_tx"

\* loadWalletAndNodeId settles: with the wallet and the node id the main function
\* sleeps INITIAL_DELAY_MS, with an error it exits
MiningBoot ==
  /\ minePc = "boot"
  /\ \E loaded \in BOOLEAN :
       IF loaded
       THEN minePc' = "initial_wait" /\ mineSleep' = INITIAL_DELAY_MS
       ELSE minePc' = "exited" /\ UNCHANGED mineSleep
  /\ UNCHANGED <<mineToken, mineResp, mineCalls, miningToken, syncOnly, taskVars, storeVars, permVars, timedVars>>

\* A sleep ends and an iteration starts: loadMiningToken throws on a missing or an
\* empty file, and the loop sleeps again; with a token it calls fetch
MiningIteration ==
  /\ minePc \in {"initial_wait", "retry_wait"}
  /\ mineCalls < MaxMineCalls
  /\ IF Missing(miningToken)
     THEN /\ minePc' = "retry_wait"
          /\ mineSleep' = RETRY_DELAY_MS
          /\ UNCHANGED <<mineToken, mineCalls>>
     ELSE /\ minePc' = "fetching"
          /\ mineToken' = miningToken
          /\ mineCalls' = mineCalls + 1
          /\ UNCHANGED mineSleep
  /\ UNCHANGED <<mineResp, miningToken, syncOnly, taskVars, storeVars, permVars, timedVars>>

\* fetch settles and response.json() is awaited, then the status is tested
MiningFetchSettles ==
  /\ minePc = "fetching"
  /\ \E reply \in MiningReplies :
       /\ mineResp' = reply
       /\ minePc' = AfterMiningReply(reply)
       /\ mineSleep' = IF minePc' = "retry_wait" THEN RETRY_DELAY_MS ELSE mineSleep
  /\ UNCHANGED <<mineToken, mineCalls, miningToken, syncOnly, taskVars, storeVars, permVars, timedVars>>

\* signer.sendTransaction settles: the main function returns, or throws
MiningTxSettles ==
  /\ minePc = "sending_tx"
  /\ \E sent \in BOOLEAN :
       minePc' = IF sent THEN "returned" ELSE "exited"
  /\ UNCHANGED <<mineToken, mineResp, mineSleep, mineCalls, miningToken, syncOnly,
                 taskVars, storeVars, permVars, timedVars>>

InitMining ==
  /\ variant = "adaptive"
  /\ SyncStart
  /\ TaskStart({"node-1"})
  /\ StoreStart
  /\ ToolsStart

NextMining ==
  \/ MiningBoot
  \/ MiningIteration
  \/ MiningFetchSettles
  \/ MiningTxSettles
  \/ SyncServiceSavesToken

SpecMining == InitMining /\ [][NextMining]_vars

\* C38: an answer with status 401, 429 or another non-2xx status except 400 never
\* ends the mining starter: after such an answer the main function has neither
\* exited nor returned.
RetryStatuses == {status \in MineStatuses : ~ResponseOk(status) /\ status # 400}
C38_RetryableStatusNeverEnds ==
  (mineResp.kind = "response" /\ mineResp.status \in RetryStatuses)
     => minePc \notin {"exited", "returned"}


----------------------------------------------------------------------------
\* Task-power permission (src/system/system/permission.js).  loadPermission returns
\* the parsed file, or the module's DEFAULT_PERMISSION object itself when the file is
\* missing or does not parse; enableTaskPower and disableTaskPower assign to the
\* object they loaded before they save it.

\* enableTaskPower calls that contact the server
MaxEnables == 3

\* task-permission.json: absent, not JSON (e.g. left empty by a failed write), or
\* JSON with taskPowerEnabled false / true
PermFiles == {"missing", "garbled", "off", "on"}

\* What api.post(ENABLE_RAM_URL) can settle with
EnableRamReplies == {"success", "refused", "failed"}

\* loadPermission: which object it returns and that object's taskPowerEnabled
loadPermission(file, dflt) ==
  IF file \in {"off", "on"}
  THEN [obj |-> "parsed", enabled |-> (file = "on")]
  ELSE [obj |-> "default", enabled |-> dflt]

\* savePermission: the file after fs.writeFileSync, which may fail before it opens
\* the file or after it has truncated it; it returns true only when the write is done
savePermission(file, enabled, write) ==
  CASE write = "written" -> IF enabled THEN "on" ELSE "off"
    [] write = "not_opened" -> file
    [] write = "truncated" -> "garbled"

\* permission.taskPowerEnabled = ...: an assignment to the loaded object, which is
\* DEFAULT_PERMISSION when nothing was parsed
AssignEnabled(obj, dflt, value) == IF obj = "default" THEN value ELSE dflt

\* enableTaskPower up to await enableRAMOnServer(), which returns false without a
\* request when the token or the node id is missing
EnableTaskPower ==
  /\ permPc = "idle"
  /\ ramRequests < MaxEnables
  /\ LET permission == loadPermission(permFile, defaultEnabled)
     IN /\ permObj' = permission.obj
        /\ IF permission.enabled
           THEN /\ enableResult' = "true"
                /\ UNCHANGED <<permPc, ramRequests>>
           ELSE \E credentials \in BOOLEAN :
                  IF credentials
                  THEN /\ permPc' = "enabling"
                       /\ ramRequests' = ramRequests + 1
                       /\ enableResult' = "pending"
                  ELSE /\ enableResult' = "false"
                       /\ UNCHANGED <<permPc, ramRequests>>
  /\ UNCHANGED <<permFile, defaultEnabled, permStatus, miningVars, miningToken, syncOnly,
                 taskVars, storeVars, timedVars>>

\* enableRAMOnServer settles; on success the permission object is changed, then saved
EnableRamSettles ==
  /\ permPc = "enabling"
  /\ permPc' = "idle"
  /\ \E reply \in EnableRamReplies, write \in WriteOutcomes :
       IF reply = "success"
       THEN /\ defaultEnabled' = AssignEnabled(permObj, defaultEnabled, TRUE)
            /\ permFile' = savePermission(permFile, TRUE, write)
            /\ enableResult' = IF write = "written" THEN "true" ELSE "false"
       ELSE /\ write = "written"
            /\ enableResult' = "false"
            /\ UNCHANGED <<permFile, defaultEnabled>>
  /\ UNCHANGED <<permObj, permStatus, ramRequests, miningVars, miningToken, syncOnly,
                 taskVars, storeVars, timedVars>>

\* disableTaskPower: no await; an enabled permission is changed, then saved
DisableTaskPower ==
  /\ permPc = "idle"
  /\ LET permission == loadPermission(permFile, defaultEnabled)
     IN /\ permission.enabled
        /\ permObj' = permission.obj
        /\ \E write \in WriteOutcomes :
             /\ defaultEnabled' = AssignEnabled(permission.obj, defaultEnabled, FALSE)
             /\ permFile' = savePermission(permFile, FALSE, write)
  /\ UNCHANGED <<permPc, enableResult, permStatus, ramRequests, miningVars, miningToken,
                 syncOnly, taskVars, storeVars, timedVars>>

\* getPermissionStatus(): return loadPermission()
GetPermissionStatus ==
  /\ permStatus' = IF loadPermission(permFile, defaultEnabled).enabled
                   THEN "enabled" ELSE "disabled"
  /\ UNCHANGED <<permFile, defaultEnabled, permPc, permObj, enableResult, ramRequests,
                 miningVars, miningToken, syncOnly, taskVars, storeVars, timedVars>>

InitPermission ==
  /\ variant = "adaptive"
  /\ SyncStart
  /\ TaskStart({"node-1"})
  /\ StoreStart
  /\ MiningStart
  /\ PermissionStart(PermFiles)
  /\ TimedStart({"cooldown"})

NextPermission ==
  \/ EnableTaskPower
  \/ EnableRamSettles
  \/ DisableTaskPower
  \/ GetPermissionStatus

SpecPermission == InitPermission /\ [][NextPermission]_vars

\* C39: after enableTaskPower has returned false, loadPermission / getPermissionStatus
\* still report taskPowerEnabled = false (so that a later enableTaskPower contacts
\* the server again).
C39_FailedEnableLeavesDisabled ==
  enableResult = "false" => ~loadPermission(permFile, defaultEnabled).enabled


----------------------------------------------------------------------------
\* The sync service revisions without an in-flight flag: the cooldown-gated one
\* (service.js lines 1-168: syncNode() at start, a 15 s setInterval guarded by
\* nextSyncAllowed, axios timeout 20 s) and the two fixed-interval ones
\* (unnamed/part_003, unnamed/part_004: setTimeout for the first sync, then
\* setInterval(syncNode, SYNC_INTERVAL), axios timeout equal to the interval).
\* Time is in ms and jumps from one event to the next; a response that is due at the
\* instant of a tick is handled before the tick.

SYNC_COOLDOWN == 60000

\* Runs of the setInterval callback
MaxTimedTicks == 4

TimedRevisions == {"cooldown", "part_003", "part_004"}

\* Round-trip times: a quick answer, a slow one, and the axios timeout
TimedLatencies(r) == {1000, RequestTimeoutOf(r) - 4000, RequestTimeoutOf(r)}

\* nextSyncAllowed of an answer, relative to the time it is handled
TimedOffsets == {30000, 90000}

\* What api.post settles with at time now: success, 429 (both with or without
\* nextSyncAllowed; 0 stands for an absent one), or another failure
TimedReplies(now) ==
  [kind : {"success"}, next : {0} \cup {now + o : o \in TimedOffsets},
   token : {NoToken, "tokA"}]
  \cup [kind : {"rate_limited"}, next : {0} \cup {now + o : o \in TimedOffsets},
        token : {NoToken}]
  \cup {[kind |-> "failed", next |-> 0, token |-> NoToken]}

\* The instants at which something is due, and the earliest of them
TimedDue ==
  (IF firstPending THEN {StartDelayOf(rev)} ELSE {})
  \cup (IF timedTicks < MaxTimedTicks THEN {nextTick} ELSE {})
  \cup {r.due : r \in requests}
TimedNextTime == CHOOSE t \in TimedDue : \A u \in TimedDue : t <= u

\* syncNode called at time now, up to await api.post: the cooldown revision returns
\* while now < nextSyncAllowed; every revision gives up without a node id or metrics
TimedSyncNode(now) ==
  \E ready \in BOOLEAN, latency \in TimedLatencies(rev) :
    IF (rev = "cooldown" /\ now < nextSyncAllowed) \/ ~ready
    THEN /\ latency = RequestTimeoutOf(rev)
         /\ UNCHANGED <<requests, lastSent>>
    ELSE /\ requests' = requests \cup {[sent |-> now, due |-> now + latency]}
         /\ lastSent' = [at |-> now, limit |-> limitUntil]

\* The first sync: syncNode() in startService (cooldown revision), or the callback of
\* its setTimeout (fixed-interval revisions)
TimedFirstSync ==
  /\ firstPending
  /\ StartDelayOf(rev) = TimedNextTime
  /\ clock' = StartDelayOf(rev)
  /\ firstPending' = FALSE
  /\ TimedSyncNode(clock')
  /\ UNCHANGED <<rev, nextTick, timedTicks, nextSyncAllowed, lastSyncTime, limitUntil,
                 miningToken, miningVars, permVars, syncOnly, taskVars, storeVars>>

\* The setInterval callback: the cooldown revision calls syncNode only when
\* now >= nextSyncAllowed, the others always
TimedTick ==
  /\ timedTicks < MaxTimedTicks
  /\ ~firstPending
  /\ nextTick = TimedNextTime
  /\ \A r \in requests : r.due > nextTick
  /\ clock' = nextTick
  /\ nextTick' = nextTick + SyncIntervalOf(rev)
  /\ timedTicks' = timedTicks + 1
  /\ IF rev = "cooldown" /\ clock' < nextSyncAllowed
     THEN UNCHANGED <<requests, lastSent>>
     ELSE TimedSyncNode(clock')
  /\ UNCHANGED <<rev, firstPending, nextSyncAllowed, lastSyncTime, limitUntil,
                 miningToken, miningVars, permVars, syncOnly, taskVars, storeVars>>

\* await api.post settles and syncNode runs to its end.  The cooldown revision
\* assigns nextSyncAllowed from a success and from a 429, whatever it held before
TimedResponse ==
  /\ \E r \in requests :
       /\ r.due = TimedNextTime
       /\ clock' = r.due
       /\ requests' = requests \ {r}
       /\ \E reply \in TimedReplies(r.due), write \in WriteOutcomes :
            /\ (r.due - r.sent = RequestTimeoutOf(rev)) => reply.kind = "failed"
            /\ (reply.token = NoToken) => write = "written"
            /\ miningToken' = IF reply.kind = "success" /\ reply.token # NoToken
                              THEN saveToken(miningToken, reply.token, write)
                              ELSE miningToken
            /\ IF rev = "cooldown" /\ reply.kind = "success"
               THEN /\ lastSyncTime' = r.due
                    /\ nextSyncAllowed' = IF Truthy(reply.next) THEN reply.next
                                          ELSE r.due + SYNC_COOLDOWN
                    /\ UNCHANGED limitUntil
               ELSE IF rev = "cooldown" /\ reply.kind = "rate_limited"
               THEN /\ nextSyncAllowed' = IF Truthy(reply.next) THEN reply.next
                                          ELSE r.due + SYNC_COOLDOWN
                    /\ limitUntil' = Max(limitUntil, reply.next)
                    /\ UNCHANGED lastSyncTime
               ELSE UNCHANGED <<nextSyncAllowed, lastSyncTime, limitUntil>>
  /\ UNCHANGED <<rev, firstPending, nextTick, timedTicks, lastSent,
                 miningVars, permVars, syncOnly, taskVars, storeVars>>

InitTimed ==
  /\ variant = "adaptive"
  /\ SyncStart
  /\ TaskStart({"node-1"})
  /\ StoreStart
  /\ MiningStart
  /\ PermissionStart({"missing"})
  /\ TimedStart(TimedRevisions)

NextTimed ==
  \/ TimedFirstSync
  \/ TimedTick
  \/ TimedResponse

SpecTimed == InitTimed /\ [][NextTimed]_vars

\* C32: in the fixed-interval revisions without an in-flight flag no two sync
\* requests are in flight at the same time.
C32_OneRequestAtATime ==
  rev \in {"part_003", "part_004"} => Cardinality(requests) <= 1

\* C33: in the cooldown-gated revision, once a 429 answer has stated the time T, no
\* sync request is sent before T: the last request was sent at or after every time
\* a 429 handled before it had stated.
C33_NoRequestBeforeServerTime ==
  rev = "cooldown" => lastSent.at >= lastSent.limit
====
